---- MODULE Spec2Model ----
(***************************************************************************)
(* The MIDI clock generators of LinkBridge: clock.py (static tempo) and    *)
(* debugAutomaticClock.py (tempo changed every 10 s from a 3-entry list).  *)
(* Both are one procedure, main(), driving an external MIDI transport      *)
(* (midi_init / midi_set_tempo / midi_send_start / midi_send_clock /       *)
(* midi_send_stop / midi_cleanup) from a single loop paced by              *)
(* time.monotonic() and time.sleep().                                      *)
(*                                                                         *)
(* Time is counted in units of 1/Second of a second.  At that resolution   *)
(* the tick intervals of the tempos the programs use (120, 80 and 140 BPM) *)
(* are whole numbers, so the deadline arithmetic of the programs is exact  *)
(* here; the rounding of Python's floats is below the model's resolution.  *)
(***************************************************************************)
EXTENDS Integers, Sequences, FiniteSets, TLC

VARIABLES
    script,            \* which program runs: "clock" or "debugAutomaticClock"
    BPM,               \* module constant BPM of the running program
    pc,                \* position of main()
    running,           \* global flag cleared by signal_handler
    clk,               \* the value time.monotonic() would return now
    current_bpm, seq_index, tick_interval, next_change_time,
    next_tick_time, tick_count, beat_count, now, sleep_time,
    exit_status,       \* value main() returned (sys.exit), -1 while it runs
    calls,             \* history: number of calls made of each transport operation
    clock_ok,          \* history: number of midi_send_clock calls that succeeded
    fatal,             \* history: the call whose failure ended the run, or "none"
    last_check,        \* history: outcome of the last tempo change check
    stop_result,       \* history: result of midi_send_stop, "none" before it
    stalls,            \* history: number of clock readings that came late
    burst,             \* history: pulses sent since the last timed wait
    waited,            \* history: what step 4 of the last cycle did
    t0,                \* history: the clock reading taken right after START
    tempo_log,         \* history: the in-loop midi_set_tempo calls, in order
    since_change,      \* history: pulses sent since the last in-loop
                       \* midi_set_tempo call: 0, 1, or 2 for two or more
    cancel_pc,         \* history: where main() was when the signal arrived
    late_clocks,       \* history: midi_send_clock calls made after the signal
    limits             \* the bounds this run is explored under

vars == << script, BPM, pc, running, clk, current_bpm, seq_index, tick_interval,
           next_change_time, next_tick_time, tick_count, beat_count, now,
           sleep_time, exit_status, calls, clock_ok, fatal, last_check,
           stop_result, stalls, burst, waited, t0, tempo_log, since_change,
           cancel_pc, late_clocks, limits >>

(***************************************************************************)
(* Bounds of the model.                                                    *)
(***************************************************************************)
\* A run is cancelled before it sends more than MaxTicks pulses.
MaxTicks == 26
\* At most MaxStalls clock readings of a run come late.
MaxStalls == 2
\* Runs without any late clock reading are followed for MaxSteadyTicks pulses:
\* past 40 s, where the tempo schedule has wrapped around.
MaxSteadyTicks == 1850
\* Bounds of the short runs, in which the place of the signal is recorded and
\* which are also explored under fairness.
MaxShortTicks == 4
MaxShortStalls == 1

(***************************************************************************)
(* Program constants.                                                      *)
(***************************************************************************)
PPQN == 24
DefaultBPM == 120
\* Units of model time per second: lcm(48, 32, 56), the pulse rates of
\* 120, 80 and 140 BPM.
Second == 672
\* Seconds between two tempo changes.
ChangePeriod == 10
bpm_sequence == << 80, 140, 120 >>

Scripts == { "clock", "debugAutomaticClock" }
Varying == script = "debugAutomaticClock"

\* calculate_tick_interval: 1.0 / ((bpm / 60.0) * PPQN) seconds.  bpm = 0 raises
\* ZeroDivisionError, shown here as the value 0 (no tempo has interval 0).
calculate_tick_interval(bpm) ==
    IF bpm = 0 THEN 0
    ELSE IF bpm > 0 THEN (60 * Second) \div (bpm * PPQN)
    ELSE -((60 * Second) \div ((-bpm) * PPQN))

\* The delays by which a reading of time.monotonic() can come late: half a
\* tick, exactly one tick, exactly two ticks, just over two ticks, one and two
\* schedule periods.  A reading that is on time has delay 0.
StallLens(iv) ==
    { d \in { iv \div 2, iv, 2 * iv, 2 * iv + 1,
              ChangePeriod * Second, 2 * ChangePeriod * Second } : d > 0 }

Delays(iv) == {0} \cup (IF stalls < limits.stalls THEN StallLens(iv) ELSE {})

CountStall(d) == IF d > 0 THEN stalls + 1 ELSE stalls

Call(op) == [calls EXCEPT ![op] = @ + 1]

Results == { TRUE, FALSE }   \* a transport call returned >= 0, or < 0

NoCalls == [ op \in { "init", "set_tempo", "start", "clock", "stop", "cleanup",
                      "get_tick_count" } |-> 0 ]

\* trace: whether cancel_pc and late_clocks are recorded.
Limits(ticks, late, trace) == [ ticks |-> ticks, stalls |-> late, trace |-> trace ]

InitWith(tempos, lim) ==
    /\ script \in Scripts
    /\ limits = lim
    /\ t0 = 0 /\ tempo_log = << >> /\ since_change = 0
    /\ cancel_pc = "none" /\ late_clocks = 0
    /\ BPM \in tempos
    /\ pc = "init"
    /\ running = TRUE
    /\ clk = 0
    /\ current_bpm = 0 /\ seq_index = 0 /\ tick_interval = 0
    /\ next_change_time = 0 /\ next_tick_time = 0
    /\ tick_count = 0 /\ beat_count = 0 /\ now = 0 /\ sleep_time = 0
    /\ exit_status = -1
    /\ calls = NoCalls
    /\ clock_ok = 0 /\ fatal = "none" /\ last_check = "none"
    /\ stop_result = "none" /\ stalls = 0 /\ burst = 0
    /\ waited = "none"

Init == InitWith({ DefaultBPM }, Limits(MaxTicks, MaxStalls, FALSE))

sched == << current_bpm, seq_index, tick_interval, next_change_time >>
counters == << tick_count, beat_count >>
consts == << script, BPM, limits >>
hist == << last_check, stop_result >>
hist2 == << t0, tempo_log, since_change >>
cancel == << cancel_pc, late_clocks >>

\* signal_handler: SIGINT or SIGTERM, at any point of main().
Signal ==
    /\ pc # "done"
    /\ running
    /\ running' = FALSE
    /\ cancel_pc' = IF limits.trace THEN pc ELSE cancel_pc
    /\ UNCHANGED << late_clocks, limits, hist2, script, BPM, pc, clk, current_bpm, seq_index, tick_interval,
                    next_change_time, next_tick_time, tick_count, beat_count, now,
                    sleep_time, exit_status, calls, clock_ok, fatal, hist, stalls,
                    burst, waited >>


\* Lines 68-72 (clock.py) / 70-72: midi_init(); a failure returns 1 at once.
\* Mutant: the failure branch does not return.
AfterInit_NoReturn(ok) == IF Varying THEN "initial_tempo" ELSE "start"

AfterInit(ok) ==
    IF ~ok THEN "done" ELSE IF Varying THEN "initial_tempo" ELSE "start"

MidiInit ==
    /\ pc = "init"
    /\ \E ok \in Results :
        /\ calls' = Call("init")
        /\ pc' = AfterInit(ok)
        /\ exit_status' = IF ok THEN exit_status ELSE 1
        /\ fatal' = IF ok THEN fatal ELSE "init"
    /\ UNCHANGED << consts, cancel, hist2, running, clk, sched, next_tick_time, counters, now,
                    sleep_time, clock_ok, hist, stalls, burst, waited >>

\* debugAutomaticClock.py lines 74-76: midi_set_tempo(BPM); a failure is only
\* a warning.
InitialTempo ==
    /\ pc = "initial_tempo"
    /\ \E ok \in Results :
        /\ calls' = Call("set_tempo")
        /\ pc' = "start"
    /\ UNCHANGED << consts, cancel, hist2, running, clk, sched, next_tick_time, counters, now,
                    sleep_time, exit_status, clock_ok, fatal, hist, stalls,
                    burst, waited >>

\* Lines 90-94: midi_send_start(); on failure midi_cleanup() and return 1.
\* Mutant: the failure branch returns without midi_cleanup().
CallsOfStart_NoCleanup(ok) == Call("start")

CallsOfStart(ok) ==
    IF ok THEN Call("start")
    ELSE [calls EXCEPT !["start"] = @ + 1, !["cleanup"] = @ + 1]

\* Mutant: the failure branch does not return.
AfterStart_NoReturn(ok) == "setup"

AfterStart(ok) == IF ok THEN "setup" ELSE "done"

SendStart ==
    /\ pc = "start"
    /\ \E ok \in Results :
        /\ calls' = CallsOfStart(ok)
        /\ pc' = AfterStart(ok)
        /\ exit_status' = IF ok THEN exit_status ELSE 1
        /\ fatal' = IF ok THEN fatal ELSE "start"
    /\ UNCHANGED << consts, cancel, hist2, running, clk, sched, next_tick_time, counters, now,
                    sleep_time, clock_ok, hist, stalls, burst, waited >>

\* Lines 96-114 (clock.py 90-98): the loop's variables.  With BPM = 0,
\* calculate_tick_interval raises ZeroDivisionError outside the try block: the
\* interpreter prints the traceback and exits with status 1, and neither
\* midi_send_stop nor midi_cleanup is called.  The first reading of
\* time.monotonic() returns clk: the origin of the clock is arbitrary, so a
\* delay before the first reading would only shift every later instant.
\* debugAutomaticClock.py reads the clock a second time (line 112).
Setup ==
    /\ pc = "setup"
    /\ IF BPM = 0
       THEN /\ pc' = "done"
            /\ exit_status' = 1
            /\ fatal' = "tempo"
            /\ UNCHANGED << clk, sched, next_tick_time, stalls, t0 >>
       ELSE /\ current_bpm' = BPM
            /\ seq_index' = 0
            /\ tick_interval' = calculate_tick_interval(BPM)
            /\ t0' = clk
            /\ IF Varying
               THEN \E d \in Delays(tick_interval') :
                      /\ next_change_time' = clk + ChangePeriod * Second
                      /\ clk' = clk + d
                      /\ stalls' = CountStall(d)
               ELSE UNCHANGED << next_change_time, clk, stalls >>
            /\ next_tick_time' = clk'
            /\ pc' = "loop"
            /\ UNCHANGED << exit_status, fatal >>
    /\ UNCHANGED << consts, cancel, tempo_log, since_change, running, counters, now,
                    sleep_time, calls, clock_ok, hist, burst, waited >>

\* Line 118 (clock.py 102): while running.  The flag is read here only.
\* Mutant: the shutdown sequence omits midi_send_stop().
AfterLoop_SkipStop == "cleanup"

AfterLoop == "stop"

\* Mutant: while True.
LoopCondition_Ignored(flag) == TRUE

\* The condition of the while statement.
LoopCondition(flag) == flag

LoopHead ==
    /\ pc = "loop"
    /\ LoopCondition(running) => tick_count < limits.ticks
    /\ pc' = IF LoopCondition(running) THEN (IF Varying THEN "tempo" ELSE "clock")
                                       ELSE AfterLoop
    /\ UNCHANGED << consts, cancel, hist2, running, clk, sched, next_tick_time, counters, now,
                    sleep_time, exit_status, calls, clock_ok, fatal, hist, stalls,
                    burst, waited >>

\* debugAutomaticClock.py lines 119-132: the tempo change check.
\* Mutant: a change is not yet due at its trigger time.
TempoDue_Strict(t, nct) == t > nct

TempoDue(t, nct) == t >= nct

\* Mutant: the index is not advanced.
NextIndex_Stuck(i) == i

NextIndex(i) == (i + 1) % Len(bpm_sequence)

\* Mutant: line 132 moved out of the if, run by every check.
TickTimeAfterCheck_Always(due, ok, t, ntt) == t

\* Mutant: line 132 left out.
TickTimeAfterCheck_Stale(due, ok, t, ntt) == ntt

\* Mutant: line 132 moved into the else branch of the set_tempo test.
TickTimeAfterCheck_OnlyApplied(due, ok, t, ntt) == IF due /\ ok THEN t ELSE ntt

\* Line 132: next_tick_time = now, in the body of "if now >= next_change_time".
TickTimeAfterCheck(due, ok, t, ntt) == IF due THEN t ELSE ntt

\* Mutant: the entry after the one the index points at.
ScheduledTempo_OffByOne(i) == bpm_sequence[((i + 1) % Len(bpm_sequence)) + 1]

\* Line 122: new_bpm = bpm_sequence[seq_index] (Python indexes from 0).
ScheduledTempo(i) == bpm_sequence[i + 1]

\* Mutant: the next trigger is taken from the instant of the check.
NextChangeTime_FromNow(nct, t) == t + ChangePeriod * Second

\* Line 130: next_change_time += 10.0.
NextChangeTime(nct, t) == nct + ChangePeriod * Second

TempoCheck ==
    /\ pc = "tempo"
    /\ \E d \in Delays(tick_interval) :
        /\ clk' = clk + d
        /\ stalls' = CountStall(d)
        /\ now' = clk'
        /\ IF TempoDue(now', next_change_time)
           THEN \E ok \in Results :
                  /\ calls' = Call("set_tempo")
                  /\ last_check' = IF ok THEN "applied" ELSE "failed"
                  /\ current_bpm' = IF ok THEN ScheduledTempo(seq_index)
                                          ELSE current_bpm
                  /\ tempo_log' = Append(tempo_log,
                        [ bpm |-> ScheduledTempo(seq_index), ok |-> ok ])
                  /\ since_change' = 0
                  /\ tick_interval' = IF ok THEN calculate_tick_interval(current_bpm')
                                            ELSE tick_interval
                  /\ seq_index' = NextIndex(seq_index)
                  /\ next_change_time' = NextChangeTime(next_change_time, now')
                  /\ next_tick_time' =
                        TickTimeAfterCheck(TRUE, ok, now', next_tick_time)
           ELSE /\ next_tick_time' =
                        TickTimeAfterCheck(FALSE, FALSE, now', next_tick_time)
                /\ last_check' = "not_due"
                /\ UNCHANGED << sched, calls, tempo_log, since_change >>
    /\ pc' = "clock"
    /\ UNCHANGED << consts, cancel, t0, running, counters, sleep_time, exit_status, clock_ok,
                    fatal, stop_result, burst, waited >>

\* Lines 134-145 (clock.py 103-114): midi_send_clock(); a failure breaks out of
\* the loop before the counters are touched.
\* Mutant: the failure branch does not break.
AfterClock_NoBreak(ok) == "advance"

\* Mutant: the flag is read again after the pulse.
AfterClock_ReadsFlag(ok) == IF ok /\ running THEN "advance" ELSE "stop"

AfterClock(ok) == IF ok THEN "advance" ELSE "stop"

\* Mutant: the beat test made on the count before its increment.
BeatBoundary_BeforeIncrement(tc) == (tc - 1) % PPQN = 0

BeatBoundary(tc) == tc % PPQN = 0

SendClock ==
    /\ pc = "clock"
    /\ late_clocks' = IF limits.trace /\ ~running THEN late_clocks + 1
                                                  ELSE late_clocks
    /\ \E ok \in Results :
        /\ pc' = AfterClock(ok)
        /\ IF ok
           THEN /\ tick_count' = tick_count + 1
                /\ beat_count' = IF BeatBoundary(tick_count') THEN beat_count + 1
                                                             ELSE beat_count
                /\ calls' = IF BeatBoundary(tick_count')
                            THEN [calls EXCEPT !["clock"] = @ + 1,
                                               !["get_tick_count"] = @ + 1]
                            ELSE Call("clock")
                /\ clock_ok' = clock_ok + 1
                /\ burst' = burst + 1
                /\ since_change' = IF since_change < 2 THEN since_change + 1 ELSE 2
                /\ UNCHANGED fatal
           ELSE /\ calls' = Call("clock")
                /\ fatal' = "clock"
                /\ UNCHANGED << counters, clock_ok, burst, since_change >>
    /\ UNCHANGED << consts, cancel_pc, t0, tempo_log, running, clk, sched, next_tick_time, now, sleep_time,
                    exit_status, hist, stalls, waited >>

\* Lines 147-149 (clock.py 116-118): the next deadline and the slack to it.
\* Mutant: the interval is added twice.
NextDeadline_Twice(ntt, iv) == ntt + iv + iv

\* Line 148: next_tick_time += tick_interval.
NextDeadline(ntt, iv) == ntt + iv

Advance ==
    /\ pc = "advance"
    /\ next_tick_time' = NextDeadline(next_tick_time, tick_interval)
    /\ \E d \in Delays(tick_interval) :
        /\ clk' = clk + d
        /\ stalls' = CountStall(d)
    /\ sleep_time' = next_tick_time' - clk'
    /\ pc' = "wait"
    /\ UNCHANGED << consts, cancel, hist2, running, sched, counters, now, exit_status, calls,
                    clock_ok, fatal, hist, burst, waited >>

\* Lines 151-157 (clock.py 120-126): sleep to the deadline, or carry on at once
\* and, when more than one tick interval behind, take the deadline from the clock.
\* Mutant: the sleep left out.
ShouldSleep_Never(st) == FALSE

\* Mutant: a slack of 0 sleeps too.
ShouldSleep_Inclusive(st) == st >= 0

ShouldSleep(st) == st > 0

\* Mutant: the resync test includes its boundary.
ShouldResync_Inclusive(st, iv) == st <= -iv

ShouldResync(st, iv) == st < -iv

Wait ==
    /\ pc = "wait"
    /\ IF ShouldSleep(sleep_time)
       THEN /\ clk' = clk + sleep_time
            /\ burst' = 0
            /\ waited' = "slept"
            /\ UNCHANGED << next_tick_time, stalls >>
       ELSE IF ShouldResync(sleep_time, tick_interval)
       THEN /\ \E d \in Delays(tick_interval) :
                /\ clk' = clk + d
                /\ stalls' = CountStall(d)
            /\ next_tick_time' = clk'
            /\ waited' = "resynced"
            /\ UNCHANGED burst
       ELSE /\ waited' = "continued"
            /\ UNCHANGED << clk, next_tick_time, stalls, burst >>
    /\ pc' = "loop"
    /\ UNCHANGED << consts, cancel, hist2, running, sched, counters, now, sleep_time, exit_status,
                    calls, clock_ok, fatal, hist >>

\* Lines 166-167 (clock.py 135-136): midi_send_stop(); its result is not read.
SendStop ==
    /\ pc = "stop"
    /\ \E ok \in Results :
        /\ calls' = Call("stop")
        /\ stop_result' = IF ok THEN "sent" ELSE "failed"
        /\ pc' = "cleanup"
    /\ UNCHANGED << consts, cancel, hist2, running, clk, sched, next_tick_time, counters, now,
                    sleep_time, exit_status, clock_ok, fatal, last_check, stalls,
                    burst, waited >>

\* Line 179 (clock.py 148): return 0.
ExitAfterLoop == 0

\* Lines 169-179 (clock.py 138-148): time.sleep(0.1), midi_cleanup(), the totals
\* are printed, return 0.
Cleanup ==
    /\ pc = "cleanup"
    /\ clk' = clk + Second \div 10
    /\ calls' = Call("cleanup")
    /\ exit_status' = ExitAfterLoop
    /\ pc' = "done"
    /\ UNCHANGED << consts, cancel, hist2, running, sched, next_tick_time, counters, now,
                    sleep_time, clock_ok, fatal, hist, stalls, burst, waited >>

Next ==
    \/ Signal
    \/ MidiInit
    \/ InitialTempo
    \/ SendStart
    \/ Setup
    \/ LoopHead
    \/ TempoCheck
    \/ SendClock
    \/ Advance
    \/ Wait
    \/ SendStop
    \/ Cleanup

Spec == Init /\ [][Next]_vars

\* The programs with BPM (line 10) set to other values, 0 and a negative tempo
\* among them.
TempoInputs == { DefaultBPM, 0, -DefaultBPM }

InitTempo == InitWith(TempoInputs, Limits(MaxTicks, MaxStalls, FALSE))

SpecTempo == InitTempo /\ [][Next]_vars

\* Runs in which no clock reading is late, followed over four schedule periods.
InitSteady == InitWith({ DefaultBPM }, Limits(MaxSteadyTicks, 0, FALSE))

SpecSteady == InitSteady /\ [][Next]_vars

\* The steps of main(): every transport call and every timed wait returns, so
\* main() always takes its next step.  Signals are under no such obligation.
Program ==
    \/ MidiInit \/ InitialTempo \/ SendStart \/ Setup \/ LoopHead \/ TempoCheck
    \/ SendClock \/ Advance \/ Wait \/ SendStop \/ Cleanup

\* Short runs, with the place of the signal recorded.
InitShort == InitWith({ DefaultBPM }, Limits(MaxShortTicks, MaxShortStalls, TRUE))

SpecShort == InitShort /\ [][Next]_vars

SpecFair == InitShort /\ [][Next]_vars /\ WF_vars(Program)

(***************************************************************************)
(* Derived state.                                                          *)
(***************************************************************************)
Returned == pc = "done"
InitOk == calls["init"] = 1 /\ fatal # "init"
StartOk == calls["start"] = 1 /\ fatal # "start"
\* Running: from the successful START to the end of the loop.
Running == pc \in { "loop", "tempo", "clock", "advance", "wait" }
\* The step of TempoCheck, SendClock, Wait.
TempoCheckStep == pc = "tempo" /\ pc' = "clock"

(***************************************************************************)
(* C1.  Claim: on every path through run (init failure, start failure,     *)
(* clock() failure, cancellation) cleanup() is called exactly once before  *)
(* run returns.                                                            *)
(***************************************************************************)
\* C1 as stated: when run has returned, cleanup() was called exactly once.
C1_CleanupOnEveryPath == Returned => calls["cleanup"] = 1

\* C1 amended: cleanup() is never called twice; when run has returned after a
\* successful init() (start failure, clock() failure, cancellation) cleanup()
\* was called exactly once, and when init() failed it was not called at all.
C1_CleanupOnceAfterInit ==
    /\ calls["cleanup"] <= 1
    /\ ~Returned => calls["cleanup"] = 0
    /\ Returned => calls["cleanup"] = (IF fatal = "init" THEN 0 ELSE 1)

\* Witness: run returned after a failed start(), cleanup() called once.
C1_Witness == Returned /\ fatal = "start" /\ calls["cleanup"] = 1

(***************************************************************************)
(* C2.  Claim: when a clock() call fails during the run loop, run returns  *)
(* a non-zero exit status.                                                 *)
(***************************************************************************)
\* C2 as stated: a run ended by a clock() failure returns non-zero.
C2_ClockFailureExitsNonZero == (Returned /\ fatal = "clock") => exit_status # 0

(***************************************************************************)
(* C3.  Claim: the tempo check resets next_tick_time to now only when a    *)
(* set_tempo call succeeded in that cycle.                                 *)
(***************************************************************************)
\* C3 as stated: the tempo check sets next_tick_time to now when the set_tempo
\* call succeeded, and leaves it unchanged when no change was due or the call
\* failed.
C3_ResyncOnlyOnAppliedChange ==
    [][TempoCheckStep =>
         IF last_check' = "applied" THEN next_tick_time' = now'
                                    ELSE next_tick_time' = next_tick_time]_vars

\* C3 amended: the tempo check sets next_tick_time to now in every cycle in
\* which a schedule entry is due, whether its set_tempo call succeeded or
\* failed, and leaves it unchanged in a cycle in which no change is due.
C3_ResyncOnEveryDueChange ==
    [][TempoCheckStep =>
         /\ last_check' \in { "applied", "failed", "not_due" }
         /\ last_check' = "not_due" <=> now' < next_change_time
         /\ IF last_check' \in { "applied", "failed" }
            THEN next_tick_time' = now'
            ELSE next_tick_time' = next_tick_time]_vars

\* Witness: a failed set_tempo call, after which the deadline is now and is
\* not the deadline step 4 of the previous cycle had left (that one lay
\* sleep_time after that cycle's clock reading, which was no later than now).
C3_Witness ==
    /\ pc = "clock" /\ last_check = "failed" /\ next_tick_time = now
    /\ tick_count > 0 /\ waited = "slept" /\ stalls = 1

(***************************************************************************)
(* C4.  Claim: a single stall longer than one tick interval makes the      *)
(* scheduler set next_tick_time to the current time, and is followed by at *)
(* most one pulse sent without an intervening wait, for every stall length *)
(* including exactly two tick intervals.                                   *)
(***************************************************************************)
\* burst counts the pulses sent since the last timed wait: the pulse of the
\* cycle the stall hit is the first, a catch-up pulse the second.

\* C4 as stated: in a run with a single stall, a cycle that ends behind its
\* deadline (the stall was longer than one tick interval) has set the deadline
\* to the current time, and no second catch-up pulse is ever sent.
C4_SingleStallOneCatchUp ==
    stalls <= 1 =>
        /\ burst <= 2
        /\ (pc = "loop" /\ tick_count > 0 /\ sleep_time < 0) =>
               (waited = "resynced" /\ next_tick_time = clk)

\* C4 amended: in a run with a single stall, the deadline is set to the current
\* time exactly when the cycle ends more than one tick interval behind its
\* deadline (slack < -tick_interval), and then at most one pulse is sent without
\* an intervening wait; a stall that leaves the cycle at most one tick interval
\* behind keeps the deadline and is followed by at most two such pulses.
C4_SingleStallBoundedCatchUp ==
    stalls <= 1 =>
        /\ burst <= 3
        /\ burst = 3 => waited = "continued"
        /\ waited = "resynced" => burst <= 2
        /\ (pc = "loop" /\ tick_count > 0) =>
               /\ waited = "resynced" <=> sleep_time < -tick_interval
               /\ waited = "resynced" => next_tick_time = clk

\* Witness: one stall of exactly two tick intervals, the deadline kept, and two
\* pulses sent after it without a wait.
C4_Witness ==
    /\ stalls = 1 /\ burst = 3 /\ waited = "continued"
    /\ sleep_time = 0 /\ pc = "advance"

(***************************************************************************)
(* C5.  Claim: at every cycle boundary tick_count is the number of clock() *)
(* calls that succeeded and beat_count = floor(tick_count / 24); a failing *)
(* clock() call increments neither counter.                                *)
(***************************************************************************)
\* C5: tick_count is the number of clock() calls made, less the failed one if
\* the run ended by a failure; beat_count is tick_count divided by 24, and the
\* transport's counter was read once per beat.
C5_Counters ==
    /\ tick_count = calls["clock"] - (IF fatal = "clock" THEN 1 ELSE 0)
    /\ tick_count = clock_ok
    /\ beat_count = tick_count \div 24
    /\ calls["get_tick_count"] = beat_count

\* Witness: a run that returned after 24 pulses and a failed 25th clock() call.
C5_Witness ==
    /\ Returned /\ fatal = "clock" /\ calls["clock"] = 25
    /\ tick_count = 24 /\ beat_count = 1

C7_FailedChangeAdvancesSchedule ==
    [][(TempoCheckStep /\ last_check' = "failed") =>
         /\ current_bpm' = current_bpm
         /\ tick_interval' = tick_interval
         /\ seq_index' = (seq_index + 1) % 3
         /\ next_change_time' = next_change_time + 10 * Second
         /\ calls'["set_tempo"] = calls["set_tempo"] + 1]_vars

\* Witness: the first entry (80) failed: the tempo is still 120 with its 1/48 s
\* interval, the index is at the second entry and the next trigger 20 s after
\* START.
C7_Witness ==
    /\ pc = "clock" /\ last_check = "failed" /\ calls["set_tempo"] = 2
    /\ current_bpm = 120 /\ tick_interval * 48 = Second
    /\ seq_index = 1 /\ next_change_time = 20 * Second

(***************************************************************************)
(* C8.  Claim: if init() or start() fails, no clock() call is ever made    *)
(* and run returns a non-zero exit status.                                 *)
(***************************************************************************)
\* C8: once init() or start() has failed, run has returned with a non-zero
\* status and no clock() call was made.
C8_FatalBeforeStart ==
    fatal \in { "init", "start" } =>
        /\ Returned
        /\ exit_status # 0 /\ exit_status # -1
        /\ calls["clock"] = 0

\* Witness: start() failed after a successful init().
C8_Witness ==
    /\ fatal = "start" /\ calls["init"] = 1 /\ calls["start"] = 1 /\ Returned

(***************************************************************************)
(* C9.  Claim: after a clock() call fails, the loop makes no further       *)
(* clock() or set_tempo call; stop() and then cleanup() are called.        *)
(***************************************************************************)
\* C9: after a failed clock() call no step makes a clock() or set_tempo call,
\* and main() is at the shutdown sequence: about to call stop(), or past
\* stop() and about to call cleanup(), or returned with both called once.
C9_ClockFailureStopsLoop ==
    /\ [](fatal = "clock" =>
            \/ pc = "stop" /\ calls["stop"] = 0 /\ calls["cleanup"] = 0
            \/ pc = "cleanup" /\ calls["stop"] = 1 /\ calls["cleanup"] = 0
            \/ pc = "done" /\ calls["stop"] = 1 /\ calls["cleanup"] = 1)
    /\ [][fatal = "clock" =>
            /\ calls'["clock"] = calls["clock"]
            /\ calls'["set_tempo"] = calls["set_tempo"]]_vars

\* Witness: a run that returned after a clock() failure in a later cycle.
C9_Witness ==
    /\ Returned /\ fatal = "clock" /\ tick_count > 1
    /\ calls["stop"] = 1 /\ calls["cleanup"] = 1

(***************************************************************************)
(* C10.  Claim: on every run in which start() succeeded, stop() is called  *)
(* exactly once and its result does not prevent the cleanup() call; stop() *)
(* is never called on a run in which init() or start() failed.             *)
(***************************************************************************)
\* C10: stop() is never called twice, and never after a failed init() or
\* start(); a run that returned after a successful start() made exactly one
\* stop() call and then the cleanup() call, whatever stop() returned.
C10_StopOnce ==
    /\ calls["stop"] <= 1
    /\ fatal \in { "init", "start" } => calls["stop"] = 0
    /\ (Returned /\ StartOk) =>
           /\ calls["stop"] = 1
           /\ stop_result \in { "sent", "failed" }
           /\ calls["cleanup"] = 1
    /\ calls["stop"] = 0 => (stop_result = "none" /\ pc # "cleanup")

\* Witness: a cancelled run whose stop() call failed and whose cleanup() call
\* was made all the same.
C10_Witness ==
    /\ Returned /\ StartOk /\ fatal = "none" /\ ~running
    /\ stop_result = "failed" /\ calls["stop"] = 1 /\ calls["cleanup"] = 1

(***************************************************************************)
(* C11.  Claim: the cancellation flag is read once per iteration, at the   *)
(* loop head only: a request arriving at any point of an iteration does    *)
(* not abort it, at most one further clock() call is made after the        *)
(* request, and none when the request arrives during the timed wait.       *)
(***************************************************************************)
\* time.sleep is not cut short by a signal whose handler returns (PEP 475), so
\* a request during the timed wait is a request at "wait" with sleep_time > 0.
InIteration == { "tempo", "clock", "advance", "wait" }
LoopLeft == pc \in { "stop", "cleanup", "done" }

\* C11: at most one clock() call follows the request; none follows a request
\* that arrived after the pulse of its iteration (before step 4, during the
\* wait, or at the loop head); a request that arrived before the pulse is
\* followed by that pulse; and the loop is left only at its head, with the flag
\* cleared, or by a clock() failure, never from the middle of an iteration.
C11_FlagReadAtLoopHeadOnly ==
    /\ [](/\ late_clocks <= 1
          /\ cancel_pc \in { "advance", "wait", "loop" } => late_clocks = 0
          /\ (cancel_pc \in { "tempo", "clock" } /\ LoopLeft) => late_clocks = 1
          /\ (cancel_pc \in InIteration /\ LoopLeft /\ fatal = "none") =>
                 (waited # "none" /\ burst <= tick_count))
    /\ [][(pc \in InIteration \cup { "loop" } /\ pc' = "stop") =>
            \/ pc = "loop" /\ ~running
            \/ pc = "clock" /\ fatal' = "clock"]_vars
    /\ [][(pc \in InIteration /\ ~running /\ fatal' = "none") =>
            \/ pc = "tempo" /\ pc' = "clock"
            \/ pc = "clock" /\ pc' = "advance"
            \/ pc = "advance" /\ pc' = "wait"
            \/ pc = "wait" /\ pc' = "loop"]_vars

\* Witness: the request arrived during a timed wait, the wait was completed
\* and the run returned without another clock() call.
C11_Witness ==
    /\ Returned /\ cancel_pc = "wait" /\ sleep_time > 0 /\ waited = "slept"
    /\ late_clocks = 0 /\ tick_count > 1 /\ fatal = "none"

(***************************************************************************)
(* C12.  Claim: the transport calls of a run follow the order              *)
(* Stopped -> Starting -> Running -> Stopping -> Stopped: init() precedes  *)
(* start(), every clock() and in-loop set_tempo() call comes after a       *)
(* successful start() and before stop(), stop() precedes cleanup(), and no *)
(* transport call follows cleanup().                                       *)
(***************************************************************************)
InLoopSetTempo == Len(tempo_log)
Made(op) == calls'[op] > calls[op]

\* C12: start() is called only after a successful init(); clock() and in-loop
\* set_tempo() calls are made only after a successful start() and before
\* stop(); stop() is called before cleanup(); nothing is called after
\* cleanup(); and each of init, start, stop, cleanup is called at most once.
C12_CallOrder ==
    /\ [](/\ calls["init"] <= 1 /\ calls["start"] <= 1
          /\ calls["stop"] <= 1 /\ calls["cleanup"] <= 1
          /\ calls["set_tempo"] = InLoopSetTempo
              + (IF Varying /\ InitOk /\ pc # "initial_tempo" THEN 1 ELSE 0)
          /\ calls["start"] > 0 => InitOk
          /\ (calls["clock"] > 0 \/ InLoopSetTempo > 0) => StartOk
          /\ calls["stop"] > 0 => StartOk)
    /\ [][Made("init") => calls = NoCalls]_vars
    /\ [][Made("start") => (InitOk /\ calls["start"] = 0)]_vars
    /\ [][(Made("clock") \/ InLoopSetTempo' > InLoopSetTempo) =>
            (StartOk /\ calls["stop"] = 0 /\ calls["cleanup"] = 0)]_vars
    /\ [][Made("stop") => (StartOk /\ calls["cleanup"] = 0)]_vars
    /\ [][(Made("cleanup") /\ StartOk) => calls["stop"] = 1]_vars
    /\ [][calls["cleanup"] > 0 => calls' = calls]_vars

\* Witness: a run through all the phases, with a tempo change and pulses,
\* ended by a cancellation.
C12_Witness ==
    /\ Returned /\ fatal = "none" /\ InLoopSetTempo > 0 /\ calls["clock"] > 2
    /\ calls["stop"] = 1 /\ calls["cleanup"] = 1

(***************************************************************************)
(* C13.  Claim: once a cancellation request has been made while the        *)
(* scheduler is Running, and provided every transport call and timed wait  *)
(* returns, the run leaves the loop, sends STOP, calls cleanup() and       *)
(* reaches Stopped.                                                        *)
(***************************************************************************)
\* C13: a run that is Running with the flag cleared eventually returns, with
\* stop() and cleanup() each called once.
C13_CancellationTerminates ==
    (Running /\ ~running) ~>
        (Returned /\ calls["stop"] = 1 /\ calls["cleanup"] = 1)

\* Witness: a run cancelled while Running, with pulses sent, that has returned.
C13_Witness ==
    /\ Returned /\ cancel_pc \in InIteration /\ tick_count > 0
    /\ calls["stop"] = 1 /\ calls["cleanup"] = 1

(***************************************************************************)
(* C14.  Claim: in the cycle in which a tempo change is applied, the next  *)
(* pulse deadline computed at the end of that cycle equals the instant of  *)
(* the tempo check plus exactly one tick interval of the new tempo.        *)
(***************************************************************************)
AdvanceStep == pc = "advance" /\ pc' = "wait"

\* C14: when line 148 runs in a cycle whose tempo check applied a change, the
\* deadline it computes is now + 60 / (24 * new tempo) seconds, now being the
\* instant of that check and the new tempo the entry just applied.
C14_DeadlineAfterAppliedChange ==
    [][(AdvanceStep /\ last_check = "applied") =>
         /\ current_bpm = tempo_log[Len(tempo_log)].bpm
         /\ (next_tick_time' - now) * (24 * current_bpm) = 60 * Second]_vars

\* Witness: 120 -> 80 applied after pulses at 120 BPM; the deadline is 1/32 s
\* after the check.
C14_Witness ==
    /\ pc = "wait" /\ last_check = "applied" /\ current_bpm = 80
    /\ tick_count > 2 /\ (next_tick_time - now) * 32 = Second

(***************************************************************************)
(* C15.  Claim: with the schedule [80, 140, 120] fired every 10 s from     *)
(* 10 s after START, no stall and no set_tempo failure, at the end of      *)
(* every cycle the current tempo equals the schedule entry most recently   *)
(* due (120 before the first trigger).                                     *)
(***************************************************************************)
\* The entry most recently due at instant t: 120 before t0 + 10 s, then 80,
\* 140, 120, 80, ... from each multiple of 10 s on.
MostRecentlyDue(t) ==
    LET n == (t - t0) \div (10 * Second)
    IN  IF t - t0 < 10 * Second THEN 120
        ELSE << 80, 140, 120 >>[((n - 1) % 3) + 1]

NoSetTempoFailure == \A i \in 1..Len(tempo_log) : tempo_log[i].ok

Undisturbed == Varying /\ stalls = 0 /\ NoSetTempoFailure

\* C15 as stated: at the end of every cycle (back at the loop head) the tempo
\* is the entry most recently due at that instant.
C15_TempoAtEndOfCycle ==
    (Undisturbed /\ pc = "loop" /\ tick_count > 0) =>
        current_bpm = MostRecentlyDue(clk)

\* C15 amended: from the tempo check of every cycle to the end of its step 4
\* the tempo is the entry most recently due at the instant of that check.
C15_TempoAtCheck ==
    (Undisturbed /\ pc \in { "clock", "advance", "wait" }) =>
        current_bpm = MostRecentlyDue(now)

\* Witness: past 40 s, the schedule has wrapped and 80 BPM is in force again.
C15_Witness ==
    /\ Undisturbed /\ pc = "clock" /\ Len(tempo_log) = 4
    /\ now - t0 >= 40 * Second /\ current_bpm = 80

WaitStep == pc = "wait" /\ pc' = "loop"

\* C17: sleep_time is the slack; the step sleeps, for exactly the slack and
\* keeping the deadline, iff the slack is positive; it sets the deadline to a
\* new clock reading iff the slack is below -tick_interval; otherwise neither
\* the clock nor the deadline moves.
C17_StepFour ==
    /\ [](pc = "wait" => sleep_time = next_tick_time - clk)
    /\ [][WaitStep =>
            /\ waited' = "slept" <=> sleep_time > 0
            /\ waited' = "slept" =>
                   (clk' = clk + sleep_time /\ next_tick_time' = next_tick_time)
            /\ waited' = "resynced" <=> sleep_time < -tick_interval
            /\ waited' = "resynced" => (next_tick_time' = clk' /\ clk' >= clk)
            /\ (-tick_interval <= sleep_time /\ sleep_time <= 0) =>
                   /\ waited' = "continued"
                   /\ clk' = clk /\ next_tick_time' = next_tick_time]_vars

\* Witness: a slack of exactly -tick_interval: no wait, and the deadline is
\* kept one tick interval behind the clock.
C17_Witness ==
    /\ pc = "loop" /\ waited = "continued" /\ tick_count > 0
    /\ sleep_time = -tick_interval /\ next_tick_time = clk - tick_interval

(***************************************************************************)
(* C18.  Claim: at most one schedule entry is processed per cycle, before  *)
(* that cycle's clock() call: between any two in-loop set_tempo calls      *)
(* there is at least one clock() call, and after a stall that spans k      *)
(* schedule periods the k overdue entries are attempted in schedule order  *)
(* in k consecutive cycles, none skipped and none attempted twice.         *)
(***************************************************************************)
\* An entry is still overdue at the instant of the last tempo check.
StillOverdue == Varying /\ Running /\ now >= next_change_time

\* C18: in the loop set_tempo is called by the tempo check only, once, with
\* clock() as the next call and a clock() call since the previous in-loop
\* set_tempo; when the check of one cycle leaves an entry overdue, the check
\* of the next cycle, one clock() later, attempts it; and the n-th entry
\* attempted is entry ((n - 1) mod 3) + 1 of [80, 140, 120].
C18_OneEntryPerCycleInOrder ==
    /\ [](\A n \in 1..Len(tempo_log) :
            tempo_log[n].bpm = << 80, 140, 120 >>[((n - 1) % 3) + 1])
    /\ [][/\ (Running /\ Made("set_tempo")) =>
                /\ TempoCheckStep
                /\ calls'["set_tempo"] = calls["set_tempo"] + 1
                /\ Len(tempo_log') = Len(tempo_log) + 1
                /\ Len(tempo_log) > 0 => since_change >= 1
          /\ (TempoCheckStep /\ StillOverdue) =>
                /\ Made("set_tempo")
                /\ Len(tempo_log) > 0 => since_change = 1]_vars

\* Witness: one stall of two schedule periods; both overdue entries have been
\* attempted, the second in the cycle after the first.
C18_Witness ==
    /\ pc = "clock" /\ stalls = 1 /\ since_change = 0
    /\ Len(tempo_log) = 2 /\ calls["set_tempo"] = 3
    /\ tempo_log[1].bpm = 80 /\ tempo_log[2].bpm = 140

(***************************************************************************)
(* C19.  Claim: the trigger times are anchored to the start of the run:    *)
(* after n schedule entries have been processed (applied or failed) the    *)
(* next trigger time equals t0 + 10 * (n + 1) seconds, t0 being the        *)
(* instant taken right after START, however late each entry was processed; *)
(* and the schedule index equals n mod 3.                                  *)
(***************************************************************************)
\* C19: in the tempo-changing program, from the setup of the loop on,
\* next_change_time = t0 + 10 (n + 1) s and seq_index = n mod 3, n being the
\* number of entries processed so far.
C19_TriggersAnchoredAtStart ==
    (Varying /\ StartOk /\ pc \notin { "start", "setup" }) =>
        /\ next_change_time = t0 + 10 * (Len(tempo_log) + 1) * Second
        /\ seq_index = Len(tempo_log) % 3

\* Witness: three entries processed, the third later than its trigger time.
C19_Witness ==
    /\ pc = "clock" /\ Len(tempo_log) = 3 /\ last_check # "not_due"
    /\ now > t0 + 30 * Second
    /\ next_change_time = t0 + 40 * Second /\ seq_index = 0

(***************************************************************************)
(* C20.  Claim: clock.py and debugAutomaticClock.py behave the same as     *)
(* long as no schedule entry is due: for the same clock, transport results *)
(* and cancellation instant they make the same start/clock/stop/cleanup    *)
(* calls and hold the same tick_count, beat_count and next_tick_time at    *)
(* every cycle boundary, the only difference being the one set_tempo(BPM)  *)
(* call of debugAutomaticClock.py between init() and start().              *)
(*                                                                         *)
(* ClockPy_Next is the step relation of clock.py's main(), written from    *)
(* clock.py alone over what the two programs share: the position in        *)
(* main(), the counters, the deadline, the slack, the exit status and the  *)
(* transport calls other than set_tempo.  The clock and the running flag   *)
(* belong to the environment.  Every result of a call and every clock      *)
(* reading determines one successor, so a program all of whose steps are   *)
(* steps of ClockPy_Next, or change nothing of the above, behaves as       *)
(* clock.py does for those inputs.                                         *)
(***************************************************************************)
\* The position of clock.py: it has neither the initial set_tempo nor the
\* tempo check.
StaticPc(p) ==
    CASE p = "initial_tempo" -> "start"
      [] p = "tempo"         -> "clock"
      [] OTHER               -> p

\* The calls of this step, set_tempo apart, are one call of each of ops.
CallsAfter(ops) ==
    \A op \in (DOMAIN calls) \ { "set_tempo" } :
        calls'[op] = calls[op] + (IF op \in ops THEN 1 ELSE 0)

\* clock.py lines 68-70.
ClockPy_MidiInit ==
    /\ StaticPc(pc) = "init"
    /\ CallsAfter({ "init" })
    /\ \/ StaticPc(pc') = "start" /\ exit_status' = exit_status
       \/ StaticPc(pc') = "done" /\ exit_status' = 1
    /\ UNCHANGED << clk, tick_interval, next_tick_time, counters, sleep_time >>

\* clock.py lines 85-88.
ClockPy_SendStart ==
    /\ StaticPc(pc) = "start"
    /\ \/ /\ CallsAfter({ "start" })
          /\ StaticPc(pc') = "setup" /\ exit_status' = exit_status
       \/ /\ CallsAfter({ "start", "cleanup" })
          /\ StaticPc(pc') = "done" /\ exit_status' = 1
    /\ UNCHANGED << clk, tick_interval, next_tick_time, counters, sleep_time >>

\* clock.py lines 91-98.
ClockPy_Setup ==
    /\ StaticPc(pc) = "setup" /\ StaticPc(pc') = "loop"
    /\ tick_interval' = calculate_tick_interval(BPM)
    /\ clk' >= clk
    /\ next_tick_time' = clk'
    /\ tick_count' = 0 /\ beat_count' = 0
    /\ CallsAfter({})
    /\ UNCHANGED << exit_status, sleep_time >>

\* clock.py line 102.
ClockPy_LoopHead ==
    /\ StaticPc(pc) = "loop"
    /\ StaticPc(pc') = IF running THEN "clock" ELSE "stop"
    /\ CallsAfter({})
    /\ UNCHANGED << clk, tick_interval, next_tick_time, counters, sleep_time,
                    exit_status >>

\* clock.py lines 104-114.
ClockPy_SendClock ==
    /\ StaticPc(pc) = "clock"
    /\ \/ /\ CallsAfter({ "clock" })
          /\ StaticPc(pc') = "stop"
          /\ UNCHANGED counters
       \/ /\ StaticPc(pc') = "advance"
          /\ tick_count' = tick_count + 1
          /\ IF tick_count' % PPQN = 0
             THEN beat_count' = beat_count + 1
                  /\ CallsAfter({ "clock", "get_tick_count" })
             ELSE beat_count' = beat_count /\ CallsAfter({ "clock" })
    /\ UNCHANGED << clk, tick_interval, next_tick_time, sleep_time, exit_status >>

\* clock.py lines 117-118.
ClockPy_Advance ==
    /\ StaticPc(pc) = "advance" /\ StaticPc(pc') = "wait"
    /\ next_tick_time' = next_tick_time + tick_interval
    /\ clk' >= clk
    /\ sleep_time' = next_tick_time' - clk'
    /\ CallsAfter({})
    /\ UNCHANGED << tick_interval, counters, exit_status >>

\* clock.py lines 120-126.
ClockPy_Wait ==
    /\ StaticPc(pc) = "wait" /\ StaticPc(pc') = "loop"
    /\ IF sleep_time > 0
       THEN clk' = clk + sleep_time /\ next_tick_time' = next_tick_time
       ELSE IF sleep_time < -tick_interval
       THEN clk' >= clk /\ next_tick_time' = clk'
       ELSE clk' = clk /\ next_tick_time' = next_tick_time
    /\ CallsAfter({})
    /\ UNCHANGED << tick_interval, counters, sleep_time, exit_status >>

\* clock.py line 136.
ClockPy_SendStop ==
    /\ StaticPc(pc) = "stop" /\ StaticPc(pc') = "cleanup"
    /\ CallsAfter({ "stop" })
    /\ UNCHANGED << clk, tick_interval, next_tick_time, counters, sleep_time,
                    exit_status >>

\* clock.py lines 139-148.
ClockPy_Cleanup ==
    /\ StaticPc(pc) = "cleanup" /\ StaticPc(pc') = "done"
    /\ clk' = clk + Second \div 10
    /\ CallsAfter({ "cleanup" })
    /\ exit_status' = 0
    /\ UNCHANGED << tick_interval, next_tick_time, counters, sleep_time >>

ClockPy_Next ==
    \/ ClockPy_MidiInit \/ ClockPy_SendStart \/ ClockPy_Setup
    \/ ClockPy_LoopHead \/ ClockPy_SendClock \/ ClockPy_Advance
    \/ ClockPy_Wait \/ ClockPy_SendStop \/ ClockPy_Cleanup

\* A step clock.py does not see: the signal handler (clock.py lines 16-20),
\* or a step at one of debugAutomaticClock.py's two extra positions that
\* changes nothing clock.py holds, while the clock goes on.
ClockPy_Hidden ==
    /\ pc \in { "initial_tempo", "tempo" } \/ running' # running
    /\ StaticPc(pc') = StaticPc(pc)
    /\ clk' >= clk
    /\ CallsAfter({})
    /\ UNCHANGED << tick_interval, next_tick_time, counters, sleep_time,
                    exit_status >>

\* C20: every step of clock.py, and every step of debugAutomaticClock.py up
\* to the first schedule entry it processes, is a step of clock.py's main()
\* or hidden from it; and up to that entry the only set_tempo call is the one
\* made between init() and start().
C20_SameUntilFirstChange ==
    /\ [][(script = "clock" \/ Len(tempo_log') = 0) =>
              (ClockPy_Next \/ ClockPy_Hidden)]_vars
    /\ [][(Made("set_tempo") /\ Len(tempo_log') = 0) =>
              /\ Varying /\ pc = "initial_tempo" /\ calls["set_tempo"] = 0
              /\ calls["init"] = 1 /\ calls["start"] = 0]_vars
    /\ [](script = "clock" => calls["set_tempo"] = 0)

\* Witness: debugAutomaticClock.py at a cycle boundary after 25 pulses, one
\* beat and two late clock readings, no schedule entry processed yet.
C20_Witness ==
    /\ Varying /\ pc = "loop" /\ Len(tempo_log) = 0
    /\ tick_count = 25 /\ beat_count = 1 /\ stalls = 2
    /\ calls["set_tempo"] = 1 /\ calls["get_tick_count"] = 1

====
